---- MODULE Spec2Model ----
(***************************************************************************)
(* Model of src/api/run-python.py: the Flask trigger run_script, the       *)
(* EmailTicketParser it constructs, the imap_connection context manager    *)
(* (a generator driven by contextlib) and the process_emails batch loop.   *)
(*                                                                         *)
(* A thread is one worker of the WSGI server serving /api/run-python.      *)
(* Every invocation of run_script constructs its own EmailTicketParser,    *)
(* so the parser fields (_lock, retry_count, imap, ...) are indexed by the *)
(* thread that is serving the invocation.  The mailbox is the one shared   *)
(* IMAP INBOX.                                                             *)
(***************************************************************************)
EXTENDS Naturals, Sequences, FiniteSets

\* ---------------------------------------------------------------- bounds
MaxMsgs == 2
MaxRuns == 2
NumThreads == 2
ThreadedMsgs == 1
MaxLen == 5

\* ------------------------------------------------------ program constants
max_retries == 3
MIN_CONNECTION_INTERVAL == 2

blocked_senders == {"noreply@ingeniumstem.org", "Mailer-Daemon@mx1.mxfilter.net"}

\* sender addresses the mailbox may hold: the two blocked ones, an address
\* that differs from a blocked one only by case, and an ordinary one
Addresses == blocked_senders \cup {"NoReply@ingeniumstem.org", "bob@example.com"}

Threads == 1..NumThreads

\* random.uniform(1, 3), on the grid of whole seconds
Jitter == 1..3

VARIABLES
    threaded,         \* whether the server serves requests on several threads
    mailbox,          \* INBOX: sequence of [from, seen]
    runs,             \* invocations of run_script so far
    pc,               \* position of each thread
    _lock,            \* parser._lock
    retry_count,      \* local of imap_connection
    imap,             \* local of imap_connection: 0 is None, else index in sessions
    sessions,         \* IMAP4_SSL objects created by the thread's invocation
    attempts,         \* connection attempts of the invocation (the printed attempt lines)
    elapsed,          \* seconds slept since the parser's latest connection attempt
    yields,           \* how often the generator has yielded
    suspended,        \* the generator is left suspended at a yield, not finalized
    exc,              \* exception in flight: "none", "OSError", "Error", "RuntimeError"
    message_numbers,  \* ids returned by search UNSEEN
    idx,              \* position of the for loop in message_numbers
    fetched,          \* ids for which fetch was issued
    built,            \* ids for which create_ticket_payload returned a payload
    posted,           \* ids whose payload was posted to the webhook
    accepted,         \* ids whose post returned HTTP 200
    stored,           \* ids for which store +FLAGS \Seen was issued
    created,          \* ids for which the "Created ticket" line was printed
    skipped,          \* ids for which the "Skipping blocked sender" line was printed
    result,           \* what process_emails returned
    failed,           \* ids whose iteration was given up before the store (not the blocked ones)
    run_error,        \* run-level failure met by the invocation, "none" if none
    unseen0,          \* number of unseen messages when the invocation started
    response,         \* HTTP status returned by run_script, 0 before it returns
    from_header,      \* argument of parse_sender_name, a sequence of characters
    sender_name       \* what parse_sender_name returned: <<first, last>>, <<>> before the call

conn_vars == <<_lock, retry_count, imap, sessions, attempts, yields, suspended, exc>>
loop_vars == <<message_numbers, idx>>
hist_vars == <<fetched, built, posted, accepted, stored, failed>>
env_vars  == <<threaded, mailbox, runs>>
parse_vars == <<from_header, sender_name>>
vars == <<env_vars, pc, conn_vars, elapsed, loop_vars, hist_vars, created, skipped, result,
          run_error, unseen0, response, parse_vars>>

\* ---------------------------------------------------------------- helpers

\* ------------------------------------------------- strings as sequences
\* the characters From headers are built of here: a letter, the two kinds of
\* white space, the angle bracket and the double quote
Alphabet == {"a", " ", "\t", "<", "\""}

\* str.isspace for the characters at hand
IsSpace(c) == c \in {" ", "\t"}

\* s.split(c)[0]: the text before the first c, all of s when there is none
SplitFirst(s, c) ==
    IF \E i \in 1..Len(s) : s[i] = c
    THEN SubSeq(s, 1, (CHOOSE i \in 1..Len(s) : s[i] = c /\ \A j \in 1..(i - 1) : s[j] # c) - 1)
    ELSE s

\* removes from both ends of s the characters of the set chars
StripChars(s, chars) ==
    IF \A i \in 1..Len(s) : s[i] \in chars THEN <<>>
    ELSE LET lo == CHOOSE i \in 1..Len(s) : s[i] \notin chars /\ \A j \in 1..(i - 1) : s[j] \in chars
             hi == CHOOSE i \in 1..Len(s) : s[i] \notin chars /\ \A j \in (i + 1)..Len(s) : s[j] \in chars
         IN  SubSeq(s, lo, hi)

\* s.strip()
Strip(s) == StripChars(s, {c \in Alphabet : IsSpace(c)})

\* s.strip('"')
StripQuotes(s) == StripChars(s, {"\""})

RECURSIVE Split(_)
\* s.split(): the runs of characters between white space, in order
Split(s) ==
    IF s = <<>> THEN <<>>
    ELSE IF IsSpace(s[1]) THEN Split(Tail(s))
    ELSE LET n == IF \E i \in 1..Len(s) : IsSpace(s[i])
                  THEN (CHOOSE i \in 1..Len(s) : IsSpace(s[i]) /\ \A j \in 1..(i - 1) : ~IsSpace(s[j])) - 1
                  ELSE Len(s)
         IN  <<SubSeq(s, 1, n)>> \o Split(SubSeq(s, n + 1, Len(s)))

\* a last name that is only the second token
JoinSecondOnly(parts) == parts[1]

RECURSIVE Join(_)
\* ' '.join(parts)
Join(parts) ==
    IF parts = <<>> THEN <<>>
    ELSE IF Len(parts) = 1 THEN parts[1]
    ELSE parts[1] \o <<" ">> \o Join(Tail(parts))

\* parse_sender_name(from_header)
parse_sender_name(h) ==
    LET name_part == StripQuotes(Strip(SplitFirst(h, "<")))
        name_parts == Split(name_part)
    IN  IF Len(name_parts) >= 2 THEN <<name_parts[1], Join(Tail(name_parts))>>
        ELSE IF Len(name_parts) = 1 THEN <<name_parts[1], <<>>>>
        ELSE << <<>>, <<>> >>

\* the From headers of the three documented examples
JaneHeader == <<"J", "a", "n", "e", " ", "Q", ".", " ", "P", "u", "b", "l", "i", "c", " ", "<", "j", "a", "n", "e", "@", "x", ".", "c", "o", "m", ">">>
SoloHeader == <<"S", "o", "l", "o", " ", "<", "s", "o", "l", "o", "@", "x", ".", "c", "o", "m", ">">>
NoNameHeader == <<"<", "n", "o", "n", "a", "m", "e", "@", "x", ".", "c", "o", "m", ">">>

\* the From headers parse_sender_name is applied to
Headers ==
    UNION { [1..n -> Alphabet] : n \in 0..MaxLen } \cup {JaneHeader, SoloHeader, NoNameHeader}

\* the value of a function that ends without a return value
None == <<>>

\* imaplib.IMAP4_SSL(...) returned a fresh object; login is not yet done
NewSession == [login |-> FALSE, closes |-> 0, logouts |-> 0]

\* imap.logout() guarded by "if imap:", errors swallowed
Logout(ss, i) == IF i = 0 THEN ss ELSE [ss EXCEPT ![i].logouts = @ + 1]

\* the finally block of imap_connection: close then logout on the current imap
Finally(ss, i) ==
    IF i = 0 THEN ss
    ELSE [ss EXCEPT ![i].closes = @ + 1, ![i].logouts = @ + 1]

\* a search that asks for ALL instead of UNSEEN
UnseenAll(mb) == [i \in 1..Len(mb) |-> i]

\* search(None, "UNSEEN"): ids of the messages lacking \Seen, ascending
Unseen(mb) ==
    SelectSeq([i \in 1..Len(mb) |-> i], LAMBDA i : ~mb[i].seen)

\* a send_to_webhook that takes any HTTP response for success
send_to_webhook_any(reply) == reply # 0

\* send_to_webhook: True only for status 200; 0 stands for requests.post raising
send_to_webhook(reply) == IF reply = 0 THEN FALSE ELSE reply = 200

\* a blocked test that knows only the first entry of the list
IsBlockedFirstOnly(sender_email) == sender_email = "noreply@ingeniumstem.org"

\* sender_email in self.blocked_senders
IsBlocked(sender_email) == sender_email \in blocked_senders

\* a retry test that is off by one
RetriesExhaustedLate(rc) == rc > max_retries

\* if retry_count >= max_retries: raise
RetriesExhausted(rc) == rc >= max_retries

\* handlers that retry on every exception
HandlerRetryAll(e) == "oserror"

\* the except clause that takes an exception raised inside the try block:
\* "except OSError" first, "except Exception" for the rest
Handler(e) == IF e = "OSError" THEN "oserror" ELSE "error"

\* what an attempt raises: OSError from the socket, imaplib's error otherwise
Raised(o) ==
    CASE o \in {"ssl_oserror", "login_oserror"} -> "OSError"
      [] o \in {"ssl_error", "login_error"} -> "Error"
      [] OTHER -> "none"

\* a session the thread holds open: logged in and not yet logged out
HoldsOpenSession(t) ==
    \E i \in 1..Len(sessions[t]) :
        sessions[t][i].login /\ sessions[t][i].logouts = 0

\* a thread is inside an invocation of run_script
Active(t) == pc[t] \notin {"idle", "done"}

Mailboxes ==
    UNION { [1..n -> [from : Addresses, seen : BOOLEAN]] : n \in 0..MaxMsgs }

\* ------------------------------------------------------------------ Init
InitCommon ==
    /\ mailbox \in Mailboxes
    /\ runs = 0
    /\ pc = [t \in Threads |-> "idle"]
    /\ _lock = [t \in Threads |-> FALSE]
    /\ retry_count = [t \in Threads |-> 0]
    /\ imap = [t \in Threads |-> 0]
    /\ sessions = [t \in Threads |-> <<>>]
    /\ attempts = [t \in Threads |-> 0]
    /\ elapsed = [t \in Threads |-> 0]
    /\ yields = [t \in Threads |-> 0]
    /\ suspended = [t \in Threads |-> FALSE]
    /\ exc = [t \in Threads |-> "none"]
    /\ message_numbers = [t \in Threads |-> <<>>]
    /\ idx = [t \in Threads |-> 0]
    /\ fetched = [t \in Threads |-> {}]
    /\ built = [t \in Threads |-> {}]
    /\ posted = [t \in Threads |-> {}]
    /\ accepted = [t \in Threads |-> {}]
    /\ stored = [t \in Threads |-> {}]
    /\ failed = [t \in Threads |-> {}]
    /\ created = [t \in Threads |-> {}]
    /\ skipped = [t \in Threads |-> {}]
    /\ result = [t \in Threads |-> None]
    /\ run_error = [t \in Threads |-> "none"]
    /\ unseen0 = [t \in Threads |-> 0]
    /\ response = [t \in Threads |-> 0]

Init == InitCommon /\ threaded = FALSE /\ from_header = <<>> /\ sender_name = <<>>

\* --------------------------------------------------------------- actions

\* run_script: parser = EmailTicketParser(**config); parser.process_emails()
RunScript(t) ==
    /\ pc[t] \in {"idle", "done"}
    /\ runs < MaxRuns
    /\ IF threaded THEN TRUE ELSE t = 1 /\ \A u \in Threads : ~Active(u)
    /\ runs' = runs + 1
    /\ pc' = [pc EXCEPT ![t] = "wait"]
    /\ _lock' = [_lock EXCEPT ![t] = FALSE]
    /\ retry_count' = [retry_count EXCEPT ![t] = 0]
    /\ imap' = [imap EXCEPT ![t] = 0]
    /\ sessions' = [sessions EXCEPT ![t] = <<>>]
    /\ attempts' = [attempts EXCEPT ![t] = 0]
    /\ elapsed' = [elapsed EXCEPT ![t] = 0]
    /\ yields' = [yields EXCEPT ![t] = 0]
    /\ suspended' = [suspended EXCEPT ![t] = FALSE]
    /\ exc' = [exc EXCEPT ![t] = "none"]
    /\ message_numbers' = [message_numbers EXCEPT ![t] = <<>>]
    /\ idx' = [idx EXCEPT ![t] = 0]
    /\ fetched' = [fetched EXCEPT ![t] = {}]
    /\ built' = [built EXCEPT ![t] = {}]
    /\ posted' = [posted EXCEPT ![t] = {}]
    /\ accepted' = [accepted EXCEPT ![t] = {}]
    /\ stored' = [stored EXCEPT ![t] = {}]
    /\ failed' = [failed EXCEPT ![t] = {}]
    /\ created' = [created EXCEPT ![t] = {}]
    /\ skipped' = [skipped EXCEPT ![t] = {}]
    /\ result' = [result EXCEPT ![t] = None]
    /\ run_error' = [run_error EXCEPT ![t] = "none"]
    /\ unseen0' = [unseen0 EXCEPT ![t] = Cardinality({m \in 1..Len(mailbox) : ~mailbox[m].seen})]
    /\ response' = [response EXCEPT ![t] = 0]
    /\ UNCHANGED <<parse_vars, threaded, mailbox>>

\* _wait_for_connection: leaves the while loop once _lock is False.  A parser
\* just constructed has _last_connection_time = 0, so no interval sleep follows.
WaitForConnection(t) ==
    /\ pc[t] = "wait"
    /\ ~_lock[t]
    /\ pc' = [pc EXCEPT ![t] = "lock"]
    /\ UNCHANGED <<parse_vars, result, skipped, created, elapsed, env_vars, conn_vars, loop_vars, hist_vars, run_error, unseen0, response>>

\* imap_connection: self._lock = True; imap = None; retry_count = 0
AcquireLock(t) ==
    /\ pc[t] = "lock"
    /\ _lock' = [_lock EXCEPT ![t] = TRUE]
    /\ imap' = [imap EXCEPT ![t] = 0]
    /\ retry_count' = [retry_count EXCEPT ![t] = 0]
    /\ pc' = [pc EXCEPT ![t] = "connect"]
    /\ UNCHANGED <<parse_vars, result, skipped, created, elapsed, env_vars, sessions, attempts, yields, suspended, exc,
                   loop_vars, hist_vars, run_error, unseen0, response>>

ConnectOutcomes == {"ssl_oserror", "ssl_error", "login_oserror", "login_error", "ok"}

\* one pass of the try body up to the yield: IMAP4_SSL(host, 993) then login
Connect(t) ==
    /\ pc[t] = "connect"
    /\ retry_count[t] < max_retries
    /\ attempts' = [attempts EXCEPT ![t] = @ + 1]
    /\ elapsed' = [elapsed EXCEPT ![t] = 0]
    /\ \E o \in ConnectOutcomes :
        /\ sessions' = [sessions EXCEPT ![t] =
              CASE o \in {"ssl_oserror", "ssl_error"} -> @
                [] o = "ok" -> Append(@, [NewSession EXCEPT !.login = TRUE])
                [] OTHER -> Append(@, NewSession)]
        /\ imap' = [imap EXCEPT ![t] =
              IF o \in {"ssl_oserror", "ssl_error"} THEN @ ELSE Len(sessions[t]) + 1]
        /\ exc' = [exc EXCEPT ![t] = Raised(o)]
        /\ pc' = [pc EXCEPT ![t] = IF o = "ok" THEN "yield" ELSE Handler(Raised(o))]
    /\ UNCHANGED <<parse_vars, result, skipped, created, env_vars, _lock, retry_count, yields, suspended,
                   loop_vars, hist_vars, run_error, unseen0, response>>

\* the generator reaches "yield imap" for the first time: __enter__ returns the
\* session and the body of the with block starts
Yield(t) ==
    /\ pc[t] = "yield"
    /\ yields[t] = 0
    /\ yields' = [yields EXCEPT ![t] = 1]
    /\ pc' = [pc EXCEPT ![t] = "select"]
    /\ UNCHANGED <<parse_vars, result, skipped, created, elapsed, env_vars, _lock, retry_count, imap, sessions, attempts,
                   suspended, exc, loop_vars, hist_vars, run_error, unseen0, response>>

\* the generator reaches "yield imap" again after the body's exception was
\* thrown into it: contextlib's __exit__ raises RuntimeError("generator didn't
\* stop after throw()").  __exit__ either closes the generator itself (finally
\* block runs now) or leaves it suspended until the exception that refers to
\* it is released.
YieldAfterThrow(t) ==
    /\ pc[t] = "yield"
    /\ yields[t] = 1
    /\ yields' = [yields EXCEPT ![t] = 2]
    /\ exc' = [exc EXCEPT ![t] = "RuntimeError"]
    /\ pc' = [pc EXCEPT ![t] = "except"]
    /\ \E closed_by_exit \in BOOLEAN :
          IF closed_by_exit
          THEN /\ sessions' = [sessions EXCEPT ![t] = Finally(@, imap[t])]
               /\ _lock' = [_lock EXCEPT ![t] = FALSE]
               /\ UNCHANGED suspended
          ELSE /\ suspended' = [suspended EXCEPT ![t] = TRUE]
               /\ UNCHANGED <<sessions, _lock>>
    /\ UNCHANGED <<parse_vars, result, skipped, created, elapsed, env_vars, retry_count, imap, attempts,
                   loop_vars, hist_vars, run_error, unseen0, response>>

\* except OSError: retry_count += 1; raise when the retries are used up (the
\* finally block runs and the error leaves imap_connection), else go on to the
\* back-off
CatchOSError(t) ==
    /\ pc[t] = "oserror"
    /\ retry_count' = [retry_count EXCEPT ![t] = @ + 1]
    /\ IF RetriesExhausted(retry_count[t] + 1)
       THEN /\ sessions' = [sessions EXCEPT ![t] = Finally(@, imap[t])]
            /\ _lock' = [_lock EXCEPT ![t] = FALSE]
            /\ pc' = [pc EXCEPT ![t] = "except"]
            /\ UNCHANGED exc
       ELSE /\ exc' = [exc EXCEPT ![t] = "none"]
            /\ pc' = [pc EXCEPT ![t] = "backoff"]
            /\ UNCHANGED <<sessions, _lock>>
    /\ UNCHANGED <<parse_vars, result, skipped, created, elapsed, env_vars, imap, attempts, yields, suspended,
                   loop_vars, hist_vars, run_error, unseen0, response>>

\* wait_time = random.uniform(1, 3) * retry_count; time.sleep(wait_time);
\* "if imap: imap.logout()", then the finally block (close, logout,
\* _lock = False), then the while loop goes round
Backoff(t) ==
    /\ pc[t] = "backoff"
    /\ \E u \in Jitter : elapsed' = [elapsed EXCEPT ![t] = @ + u * retry_count[t]]
    /\ sessions' = [sessions EXCEPT ![t] = Finally(Logout(@, imap[t]), imap[t])]
    /\ _lock' = [_lock EXCEPT ![t] = FALSE]
    /\ pc' = [pc EXCEPT ![t] = "connect"]
    /\ UNCHANGED <<parse_vars, result, skipped, created, env_vars, retry_count, imap, attempts, yields, suspended, exc,
                   loop_vars, hist_vars, run_error, unseen0, response>>

\* except Exception: raise.  The finally block runs and the error leaves
\* imap_connection.
ReRaise(t) ==
    /\ pc[t] = "error"
    /\ sessions' = [sessions EXCEPT ![t] = Finally(@, imap[t])]
    /\ _lock' = [_lock EXCEPT ![t] = FALSE]
    /\ pc' = [pc EXCEPT ![t] = "except"]
    /\ UNCHANGED <<parse_vars, result, skipped, created, elapsed, env_vars, retry_count, imap, attempts, yields, suspended, exc,
                   loop_vars, hist_vars, run_error, unseen0, response>>

\* a scope exit whose finally block forgets close and logout
ExitScopeNoRelease(t) ==
    /\ pc[t] = "exit"
    /\ result' = [result EXCEPT ![t] = None]
    /\ _lock' = [_lock EXCEPT ![t] = FALSE]
    /\ pc' = [pc EXCEPT ![t] = "respond"]
    /\ UNCHANGED <<parse_vars, skipped, created, elapsed, env_vars, retry_count, imap, sessions, attempts, yields, suspended, exc,
                   loop_vars, hist_vars, run_error, unseen0, response>>

\* the with block is left without an exception (a return in the body, or the
\* for loop ran out): the generator resumes after the yield, breaks, and its
\* finally block runs
ExitScope(t) ==
    /\ pc[t] = "exit"
    /\ result' = [result EXCEPT ![t] = None]
    /\ sessions' = [sessions EXCEPT ![t] = Finally(@, imap[t])]
    /\ _lock' = [_lock EXCEPT ![t] = FALSE]
    /\ pc' = [pc EXCEPT ![t] = "respond"]
    /\ UNCHANGED <<parse_vars, skipped, created, elapsed, env_vars, retry_count, imap, attempts, yields, suspended, exc,
                   loop_vars, hist_vars, run_error, unseen0, response>>

\* process_emails: "except Exception as e: print(...)".  When the handler ends
\* the exception is released, and a generator still suspended is finalized:
\* GeneratorExit at its yield runs the finally block.
ExceptHandler(t) ==
    /\ pc[t] = "except"
    /\ result' = [result EXCEPT ![t] = None]
    /\ run_error' = [run_error EXCEPT ![t] = exc[t]]
    /\ exc' = [exc EXCEPT ![t] = "none"]
    /\ IF suspended[t]
       THEN /\ sessions' = [sessions EXCEPT ![t] = Finally(@, imap[t])]
            /\ _lock' = [_lock EXCEPT ![t] = FALSE]
       ELSE UNCHANGED <<sessions, _lock>>
    /\ suspended' = [suspended EXCEPT ![t] = FALSE]
    /\ pc' = [pc EXCEPT ![t] = "respond"]
    /\ UNCHANGED <<parse_vars, skipped, created, elapsed, env_vars, retry_count, imap, attempts, yields,
                   loop_vars, hist_vars, unseen0, response>>

\* run_script: process_emails returned, so jsonify success with status 200;
\* status 500 only for an exception that escaped process_emails
Respond(t) ==
    /\ pc[t] = "respond"
    /\ response' = [response EXCEPT ![t] = IF exc[t] = "none" THEN 200 ELSE 500]
    /\ pc' = [pc EXCEPT ![t] = "done"]
    /\ UNCHANGED <<parse_vars, result, skipped, created, elapsed, env_vars, conn_vars, loop_vars, hist_vars, run_error, unseen0>>

\* an exception raised by the body before the for loop is thrown into the
\* generator at its yield
Throw(t, e) ==
    /\ exc' = [exc EXCEPT ![t] = e]
    /\ pc' = [pc EXCEPT ![t] = Handler(e)]

CallOutcomes == {"OK", "NO", "OSError", "Error"}

\* status, messages = imap.select("INBOX"); return when status != 'OK'
Select(t) ==
    /\ pc[t] = "select"
    /\ \E o \in CallOutcomes :
          CASE o = "OK" -> /\ pc' = [pc EXCEPT ![t] = "search"]
                           /\ UNCHANGED <<exc, run_error>>
            [] o = "NO" -> /\ pc' = [pc EXCEPT ![t] = "exit"]
                           /\ run_error' = [run_error EXCEPT ![t] = "select"]
                           /\ UNCHANGED exc
            [] OTHER -> Throw(t, o) /\ UNCHANGED run_error
    /\ UNCHANGED <<parse_vars, result, skipped, created, elapsed, env_vars, _lock, retry_count, imap, sessions, attempts,
                   yields, suspended, loop_vars, hist_vars, unseen0, response>>

\* status, message_numbers = imap.search(None, "UNSEEN"); return when the
\* status is not OK or no id came back
Search(t) ==
    /\ pc[t] = "search"
    /\ \E o \in CallOutcomes :
          CASE o = "OK" -> /\ message_numbers' = [message_numbers EXCEPT ![t] = Unseen(mailbox)]
                           /\ idx' = [idx EXCEPT ![t] = IF Unseen(mailbox) = <<>> THEN 0 ELSE 1]
                           /\ pc' = [pc EXCEPT ![t] = IF Unseen(mailbox) = <<>> THEN "exit" ELSE "fetch"]
                           /\ UNCHANGED <<exc, run_error>>
            [] o = "NO" -> /\ pc' = [pc EXCEPT ![t] = "exit"]
                           /\ run_error' = [run_error EXCEPT ![t] = "search"]
                           /\ UNCHANGED <<exc, loop_vars>>
            [] OTHER -> Throw(t, o) /\ UNCHANGED <<run_error, loop_vars>>
    /\ UNCHANGED <<parse_vars, result, skipped, created, elapsed, env_vars, _lock, retry_count, imap, sessions, attempts,
                   yields, suspended, hist_vars, unseen0, response>>

\* a loop body that always works on the first id
num_first(t) == message_numbers[t][1]

\* the message the for loop is at
num(t) == message_numbers[t][idx[t]]

\* a loop that takes the same id again
ContinueNoAdvance(t) ==
    /\ pc' = [pc EXCEPT ![t] = "fetch"]
    /\ UNCHANGED <<message_numbers, idx>>

\* a loop that is left at the first message that ends its iteration
ContinueBreak(t) ==
    /\ idx' = [idx EXCEPT ![t] = @ + 1]
    /\ pc' = [pc EXCEPT ![t] = "exit"]
    /\ UNCHANGED message_numbers

\* "continue", and the end of the loop body: the for loop takes the next id, or
\* runs out and the with block is left
Continue(t) ==
    /\ idx' = [idx EXCEPT ![t] = @ + 1]
    /\ pc' = [pc EXCEPT ![t] = IF idx[t] + 1 > Len(message_numbers[t]) THEN "exit" ELSE "fetch"]
    /\ UNCHANGED message_numbers

FetchOutcomes == {"OK", "NO", "nodata", "raise"}

\* status, msg_data = imap.fetch(num, "(RFC822)"); continue on a non-OK status,
\* on empty data and, through except Exception, on an error
Fetch(t) ==
    /\ pc[t] = "fetch"
    /\ fetched' = [fetched EXCEPT ![t] = @ \cup {num(t)}]
    /\ \E o \in FetchOutcomes :
          IF o = "OK"
          THEN pc' = [pc EXCEPT ![t] = "filter"] /\ UNCHANGED <<loop_vars, failed>>
          ELSE Continue(t) /\ failed' = [failed EXCEPT ![t] = @ \cup {num(t)}]
    /\ UNCHANGED <<parse_vars, result, skipped, created, elapsed, env_vars, conn_vars, built, posted, accepted, stored,
                   run_error, unseen0, response>>

\* msg = email.message_from_bytes(...); sender_email = parseaddr(msg["from"])[1];
\* continue when the sender is blocked or when parsing raised
Filter(t) ==
    /\ pc[t] = "filter"
    /\ \E parsed \in BOOLEAN :
          CASE ~parsed ->
                 /\ Continue(t)
                 /\ failed' = [failed EXCEPT ![t] = @ \cup {num(t)}]
                 /\ UNCHANGED skipped
            [] parsed /\ IsBlocked(mailbox[num(t)].from) ->
                 /\ Continue(t)
                 /\ skipped' = [skipped EXCEPT ![t] = @ \cup {num(t)}]
                 /\ UNCHANGED failed
            [] OTHER ->
                 pc' = [pc EXCEPT ![t] = "payload"] /\ UNCHANGED <<loop_vars, failed, skipped>>
    /\ UNCHANGED <<parse_vars, result, created, elapsed, env_vars, conn_vars, fetched, built, posted, accepted, stored,
                   run_error, unseen0, response>>

\* ticket_payload = self.create_ticket_payload(msg); an error raised while
\* decoding headers or body is caught by except Exception
CreateTicketPayload(t) ==
    /\ pc[t] = "payload"
    /\ \E ok \in BOOLEAN :
          IF ok
          THEN /\ built' = [built EXCEPT ![t] = @ \cup {num(t)}]
               /\ pc' = [pc EXCEPT ![t] = "webhook"]
               /\ UNCHANGED <<loop_vars, failed>>
          ELSE /\ Continue(t)
               /\ failed' = [failed EXCEPT ![t] = @ \cup {num(t)}]
               /\ UNCHANGED built
    /\ UNCHANGED <<parse_vars, result, skipped, created, elapsed, env_vars, conn_vars, fetched, posted, accepted, stored,
                   run_error, unseen0, response>>

WebhookReplies == {0, 200, 500}

\* if self.send_to_webhook(ticket_payload): ... else: print(...)
SendToWebhook(t) ==
    /\ pc[t] = "webhook"
    /\ posted' = [posted EXCEPT ![t] = @ \cup {num(t)}]
    /\ \E reply \in WebhookReplies :
          /\ accepted' = [accepted EXCEPT ![t] = IF reply = 200 THEN @ \cup {num(t)} ELSE @]
          /\ IF send_to_webhook(reply)
             THEN /\ pc' = [pc EXCEPT ![t] = "store"]
                  /\ UNCHANGED <<loop_vars, failed>>
             ELSE /\ Continue(t)
                  /\ failed' = [failed EXCEPT ![t] = @ \cup {num(t)}]
    /\ UNCHANGED <<parse_vars, result, skipped, created, elapsed, env_vars, conn_vars, fetched, built, stored,
                   run_error, unseen0, response>>

StoreOutcomes == {"OK", "NO", "raise"}

\* a print after the store that is never reached
StoreReturnsNever(o) == FALSE

\* the statement after imap.store(...) runs when the call returned, whatever
\* status it returned
StoreReturns(o) == o # "raise"

\* imap.store(num, '+FLAGS', '\\Seen'): the returned status is not looked at and
\* an error is caught by except Exception; the flag is set when the server
\* answered OK; print("Created ticket ...") follows when store returned
Store(t) ==
    /\ pc[t] = "store"
    /\ stored' = [stored EXCEPT ![t] = @ \cup {num(t)}]
    /\ \E o \in StoreOutcomes :
          /\ mailbox' = IF o = "OK" THEN [mailbox EXCEPT ![num(t)].seen = TRUE] ELSE mailbox
          /\ created' = [created EXCEPT ![t] = IF StoreReturns(o) THEN @ \cup {num(t)} ELSE @]
    /\ Continue(t)
    /\ UNCHANGED <<parse_vars, result, skipped, elapsed, threaded, runs, conn_vars, fetched, built, posted, accepted, failed,
                   run_error, unseen0, response>>

Next ==
    \E t \in Threads :
        \/ RunScript(t)
        \/ WaitForConnection(t)
        \/ AcquireLock(t)
        \/ Connect(t)
        \/ Yield(t)
        \/ YieldAfterThrow(t)
        \/ CatchOSError(t)
        \/ Backoff(t)
        \/ ReRaise(t)
        \/ ExitScope(t)
        \/ ExceptHandler(t)
        \/ Respond(t)
        \/ Select(t)
        \/ Search(t)
        \/ Fetch(t)
        \/ Filter(t)
        \/ CreateTicketPayload(t)
        \/ SendToWebhook(t)
        \/ Store(t)

Spec == Init /\ [][Next]_vars

\* a thread that is inside run_script keeps running: no step of the run is
\* cancellable, and every library call of the run returns or raises
SpecLive == Init /\ [][Next]_vars /\ WF_vars(Next)

\* first_name, last_name = self.parse_sender_name(from_header)
ParseSenderName ==
    /\ sender_name = <<>>
    /\ sender_name' = parse_sender_name(from_header)
    /\ UNCHANGED <<env_vars, pc, conn_vars, elapsed, loop_vars, hist_vars, created, skipped,
                   result, run_error, unseen0, response, from_header>>

\* parse_sender_name on its own, applied to every header of Headers
InitParse ==
    /\ InitCommon /\ threaded = FALSE /\ mailbox = <<>>
    /\ from_header \in Headers /\ sender_name = <<>>

NextParse == ParseSenderName

SpecParse == InitParse /\ [][NextParse]_vars

\* the server serves overlapping requests on separate threads (app.run()); the
\* mailbox holds ThreadedMsgs messages
InitThreaded ==
    /\ InitCommon /\ threaded = TRUE /\ Len(mailbox) = ThreadedMsgs
    /\ from_header = <<>> /\ sender_name = <<>>

SpecThreaded == InitThreaded /\ [][Next]_vars

TypeOK ==
    /\ pc \in [Threads -> {"idle", "wait", "lock", "connect", "yield", "oserror", "backoff",
                           "error", "except", "exit", "respond", "done", "select", "search",
                           "fetch", "filter", "payload", "webhook", "store"}]
    /\ \A t \in Threads : imap[t] \in 0..Len(sessions[t])

\* ---------------------------------------------------------------- claims

\* the ids in a sequence of message numbers
Ids(seq) == {seq[i] : i \in 1..Len(seq)}

\* every session the invocation opened has had close and logout issued on it
AllReleased(t) ==
    \A i \in 1..Len(sessions[t]) :
        sessions[t][i].closes >= 1 /\ sessions[t][i].logouts >= 1

\* the with block of process_emails has been left
ScopeLeft(t) == pc[t] \in {"except", "respond", "done"}

\* C1: a store +FLAGS \Seen is issued for a message only after the webhook
\* answered 200 for the payload built from that message; a message whose
\* iteration was given up (fetch failed, parsing raised, webhook failed or
\* raised) or whose sender is blocked has no store issued and keeps its flag.
C1_StoreOnlyAfterWebhook200 ==
    \A t \in Threads :
        /\ stored[t] \subseteq accepted[t]
        /\ accepted[t] \subseteq posted[t]
        /\ posted[t] \subseteq built[t]
        /\ built[t] \subseteq fetched[t]
        /\ pc[t] = "store" => num(t) \in accepted[t]
        /\ \A m \in Ids(message_numbers[t]) :
              (m \in failed[t] \/ mailbox[m].from \in blocked_senders)
                  => m \notin stored[t] /\ ~mailbox[m].seen
        /\ \A m \in Ids(message_numbers[t]) :
              mailbox[m].seen => m \in stored[t] /\ m \in accepted[t]

\* C1 witness: one message of the run was refused by the webhook and has no
\* store, another was accepted and has been marked read
C1_Witness ==
    \E t \in Threads : \E m, n \in Ids(message_numbers[t]) :
        /\ m \in posted[t] \ accepted[t]
        /\ m \in failed[t]
        /\ n \in stored[t]
        /\ mailbox[n].seen

\* C2: when the run has ended, every message whose webhook call returned 200
\* is marked read
C2_AcceptedIsMarkedRead ==
    \A t \in Threads :
        pc[t] = "done" => \A m \in accepted[t] : mailbox[m].seen

\* C3: for an unseen message from a blocked sender no payload is built, no
\* webhook call is made and no store is issued, it stays unread, and the loop
\* goes on to the next message
C3_BlockedSenderSkipped ==
    \A t \in Threads : \A i \in 1..Len(message_numbers[t]) :
        mailbox[message_numbers[t][i]].from \in blocked_senders =>
            /\ message_numbers[t][i] \notin built[t] \cup posted[t] \cup stored[t]
            /\ ~mailbox[message_numbers[t][i]].seen
            /\ ~(pc[t] \in {"payload", "webhook", "store"} /\ idx[t] = i)
            /\ (idx[t] > i /\ i < Len(message_numbers[t]))
                  => (pc[t] = "fetch" /\ idx[t] = i + 1)
                     \/ message_numbers[t][i + 1] \in fetched[t]

\* C3 witness: a blocked sender's message was fetched and parsed, and the run
\* has fetched the message after it
C3_Witness ==
    \E t \in Threads :
        /\ Len(message_numbers[t]) = 2
        /\ mailbox[message_numbers[t][1]].from \in blocked_senders
        /\ message_numbers[t][1] \in fetched[t] \ failed[t]
        /\ message_numbers[t][2] \in fetched[t]

\* C4: in a run that reached the for loop, every id the search returned is
\* fetched, whatever happened to the messages before it
C4_EveryMessageFetched ==
    \A t \in Threads :
        /\ \A i \in 1..Len(message_numbers[t]) :
              i < idx[t] => message_numbers[t][i] \in fetched[t]
        /\ (ScopeLeft(t) \/ pc[t] = "exit") =>
              fetched[t] = Ids(message_numbers[t])

\* C4 witness: the run is over, the first message's iteration failed and the
\* second message was fetched all the same
C4_Witness ==
    \E t \in Threads :
        /\ pc[t] = "done"
        /\ Len(message_numbers[t]) = 2
        /\ message_numbers[t][1] \in failed[t]
        /\ message_numbers[t][2] \in fetched[t]

\* C5: once the imap_connection scope has been left, on whatever path, every
\* session that was opened is closed and logged out and _lock is False
C5_ReleasedOnEveryExit ==
    \A t \in Threads :
        ScopeLeft(t) => AllReleased(t) /\ ~_lock[t]

\* C6: an acquisition makes at most 3 connection attempts; when the session is
\* handed to the caller after k transient failures, k < 3, exactly k + 1
\* attempts have been made; after the third transient failure the error is
\* raised and no further attempt follows
C6_BoundedRetries ==
    \A t \in Threads :
        /\ attempts[t] <= 3
        /\ (pc[t] = "select" /\ yields[t] = 1) =>
              /\ retry_count[t] < 3
              /\ attempts[t] = retry_count[t] + 1
              /\ imap[t] = Len(sessions[t])
              /\ sessions[t][imap[t]].login
              /\ sessions[t][imap[t]].logouts = 0
        /\ retry_count[t] >= 3 =>
              /\ attempts[t] = 3
              /\ ScopeLeft(t)
              /\ "OSError" \in {exc[t], run_error[t]}

\* C6 witness: two transient failures, then the third attempt succeeded, and
\* the run went through without a run-level failure
C6_Witness ==
    \E t \in Threads :
        /\ pc[t] = "done"
        /\ retry_count[t] = 2
        /\ attempts[t] = 3
        /\ yields[t] = 1
        /\ run_error[t] = "none"

\* C7: an exception that is not an OSError is taken by "except Exception" and
\* leaves imap_connection at once: no retry is counted, no back-off starts
\* and no connection attempt follows; raised by the first attempt, it leaves
\* after exactly one attempt
C7_NonTransientNotRetried ==
    [][\A t \in Threads :
          exc[t] = "Error" =>
              /\ pc[t] \in {"error", "except"}
              /\ (retry_count[t] = 0 /\ yields[t] = 0) => attempts[t] = 1
              /\ pc'[t] \in {"error", "except", "respond"}
              /\ attempts'[t] = attempts[t]
              /\ retry_count'[t] = retry_count[t]
              /\ pc'[t] = "respond" => run_error'[t] = "Error"]_vars

\* C7 witness: the login of the first attempt failed with a non-transient
\* error, which reached process_emails after that single attempt
C7_Witness ==
    \E t \in Threads :
        /\ pc[t] = "respond"
        /\ run_error[t] = "Error"
        /\ yields[t] = 0
        /\ attempts[t] = 1
        /\ Len(sessions[t]) = 1

\* C8: run_script answers 500 when the run met a run-level failure and 200
\* only when it met none
C8_FailureGives500 ==
    \A t \in Threads :
        pc[t] = "done" =>
            /\ run_error[t] # "none" => response[t] = 500
            /\ response[t] = 200 => run_error[t] = "none"

\* C9: no two overlapping invocations of run_script hold an open mailbox
\* session at the same time
C9_OneSessionAtATime ==
    \A t, u \in Threads :
        t # u => ~(HoldsOpenSession(t) /\ HoldsOpenSession(u))

\* C10: a run that starts on a mailbox with zero unseen messages issues no
\* fetch, no webhook call and no store, leaves every flag as it was, and ends
\* with the session released, no exception and a success response.  The same
\* holds of every later run.
C10_NoUnseenIsNoOp ==
    \A t \in Threads :
        (pc[t] # "idle" /\ unseen0[t] = 0) =>
            /\ fetched[t] = {}
            /\ built[t] = {}
            /\ posted[t] = {}
            /\ stored[t] = {}
            /\ message_numbers[t] = <<>>
            /\ \A m \in 1..Len(mailbox) : mailbox[m].seen
            /\ pc[t] \notin {"fetch", "filter", "payload", "webhook", "store"}
            /\ pc[t] = "done" =>
                  /\ AllReleased(t)
                  /\ ~_lock[t]
                  /\ exc[t] = "none"
                  /\ response[t] = 200

\* C10 witness: the second run in a row on a mailbox that holds messages, none
\* of them unseen, has searched and ended
C10_Witness ==
    \E t \in Threads :
        /\ runs = 2
        /\ pc[t] = "done"
        /\ unseen0[t] = 0
        /\ Len(mailbox) > 0
        /\ yields[t] = 1
        /\ run_error[t] = "none"
        /\ response[t] = 200

\* the positions inside the with block of process_emails
InBody(t) == pc[t] \in {"select", "search", "fetch", "filter", "payload", "webhook", "store", "exit"}

\* C13: when select or search returned a status that is not OK, the run is
\* over before the for loop: no fetch, no webhook call and no store, and the
\* session is closed and logged out when the scope is left
C13_SelectSearchFailureAborts ==
    \A t \in Threads :
        run_error[t] \in {"select", "search"} =>
            /\ pc[t] \in {"exit", "respond", "done"}
            /\ message_numbers[t] = <<>>
            /\ fetched[t] = {}
            /\ built[t] = {}
            /\ posted[t] = {}
            /\ stored[t] = {}
            /\ pc[t] \in {"respond", "done"} => AllReleased(t) /\ ~_lock[t]

\* C13 witness: the search on a mailbox with unseen messages answered NO and
\* the scope has been left with the session released
C13_Witness ==
    \E t \in Threads :
        /\ pc[t] = "respond"
        /\ run_error[t] = "search"
        /\ unseen0[t] > 0
        /\ Len(sessions[t]) >= 1
        /\ AllReleased(t)

\* C15: select, search, fetch and store run only on a session that is logged
\* in and has seen neither close nor logout; every logout of a session comes
\* after its close; a session is logged out at most once, and exactly once
\* when the scope has been left
C15_SessionOrder ==
    \A t \in Threads :
        /\ (InBody(t) /\ pc[t] # "exit") =>
              /\ imap[t] # 0
              /\ sessions[t][imap[t]].login
              /\ sessions[t][imap[t]].closes = 0
              /\ sessions[t][imap[t]].logouts = 0
        /\ \A i \in 1..Len(sessions[t]) :
              /\ sessions[t][i].logouts <= 1
              /\ sessions[t][i].logouts <= sessions[t][i].closes
              /\ ScopeLeft(t) => sessions[t][i].logouts = 1

\* C17: the generator yields at most once; once the session has been handed
\* over there is no back-off and no further connection attempt, and the
\* body's exception reaches the caller as it was raised
C17_YieldedOnce ==
    \A t \in Threads :
        /\ yields[t] <= 1
        /\ yields[t] = 1 => pc[t] \notin {"backoff", "connect", "yield"}
        /\ exc[t] # "RuntimeError"
        /\ run_error[t] # "RuntimeError"

\* C18: from the first connection attempt until the scope is released the
\* caller's _lock is True at every moment, the back-off waits and the retry
\* attempts included.  (Each invocation of run_script owns its parser, so the
\* caller of a parser is the one thread that built it.)
C18_LockHeldThroughout ==
    \A t \in Threads :
        (InBody(t) \/ pc[t] \in {"connect", "yield", "oserror", "backoff", "error"})
            => _lock[t]

\* a step of thread t
Steps(t) == pc'[t] # pc[t] \/ idx'[t] # idx[t]

\* C19: within a run a fetch, a webhook call and a store are issued only for
\* an id the search returned, and never for an id that already had one
C19_EachMessageAtMostOnce ==
    [][\A t \in Threads :
          /\ fetched[t] \cup posted[t] \cup stored[t] \subseteq Ids(message_numbers[t])
          /\ (pc[t] \in {"fetch", "webhook", "store"} /\ Steps(t)) =>
                num(t) \in Ids(message_numbers[t])
          /\ (pc[t] = "fetch" /\ Steps(t)) =>
                num(t) \notin fetched[t] /\ fetched'[t] = fetched[t] \cup {num(t)}
          /\ (pc[t] = "webhook" /\ Steps(t)) =>
                num(t) \notin posted[t] /\ posted'[t] = posted[t] \cup {num(t)}
          /\ (pc[t] = "store" /\ Steps(t)) =>
                num(t) \notin stored[t] /\ stored'[t] = stored[t] \cup {num(t)}]_vars

\* C19 witness: a run over two unseen messages has fetched, submitted and
\* marked both
C19_Witness ==
    \E t \in Threads :
        /\ pc[t] = "done"
        /\ Len(message_numbers[t]) = 2
        /\ fetched[t] = Ids(message_numbers[t])
        /\ posted[t] = fetched[t]
        /\ stored[t] = fetched[t]

\* C16: a run that starts with the lock flag free ends: it reaches the end of
\* run_script, having completed or having had its error handled, and its
\* lock flag is False then
C16_RunTerminates ==
    \A t \in Threads :
        (pc[t] = "wait" /\ ~_lock[t]) ~> (pc[t] = "done" /\ ~_lock[t])

\* C16 witness: a run that needed all three attempts and went through two
\* messages has ended with the lock flag False
C16_Witness ==
    \E t \in Threads :
        /\ pc[t] = "done"
        /\ ~_lock[t]
        /\ attempts[t] = 3
        /\ Len(message_numbers[t]) = 2
        /\ fetched[t] = Ids(message_numbers[t])

\* C14: whenever a parser is about to make a connection attempt that is not
\* its first, at least MIN_CONNECTION_INTERVAL seconds have gone by since its
\* previous attempt
C14_MinIntervalBetweenAttempts ==
    \A t \in Threads :
        (pc[t] = "connect" /\ attempts[t] >= 1) =>
            elapsed[t] >= MIN_CONNECTION_INTERVAL

DisplayName(h) == StripQuotes(Strip(SplitFirst(h, "<")))

\* the positions of s at which a token starts
TokenStarts(s) ==
    {i \in 1..Len(s) : ~IsSpace(s[i]) /\ (i = 1 \/ IsSpace(s[i - 1]))}

\* the token of s that starts at position i
TokenAt(s, i) ==
    SubSeq(s, i, CHOOSE j \in i..Len(s) :
                    /\ \A k \in i..j : ~IsSpace(s[k])
                    /\ (j = Len(s) \/ IsSpace(s[j + 1])))

\* the tokens of s in order of position
Tokens(s) ==
    [k \in 1..Cardinality(TokenStarts(s)) |->
        TokenAt(s, CHOOSE i \in TokenStarts(s) :
                      Cardinality({j \in TokenStarts(s) : j <= i}) = k)]

\* C12: the first name is the first white-space separated token of the
\* display name and the last name is the remaining tokens joined by single
\* spaces; one token gives an empty last name, no token gives two empty
\* names; the three documented headers give the documented names
C12_NameSplitting ==
    sender_name # <<>> =>
        LET toks == Tokens(DisplayName(from_header))
            first == sender_name[1]
            last == sender_name[2]
        IN  /\ Len(sender_name) = 2
            /\ Len(toks) = 0 => first = <<>> /\ last = <<>>
            /\ Len(toks) >= 1 => first = toks[1]
            /\ Len(toks) = 1 => last = <<>>
            /\ Len(toks) >= 2 =>
                  /\ Tokens(last) = Tail(toks)
                  /\ ~IsSpace(last[1])
                  /\ ~IsSpace(last[Len(last)])
                  /\ \A i \in 1..(Len(last) - 1) :
                        IsSpace(last[i]) => last[i] = " " /\ ~IsSpace(last[i + 1])
            /\ from_header = JaneHeader =>
                  sender_name = << <<"J", "a", "n", "e">>,
                                   <<"Q", ".", " ", "P", "u", "b", "l", "i", "c">> >>
            /\ from_header = SoloHeader =>
                  sender_name = << <<"S", "o", "l", "o">>, <<>> >>
            /\ from_header = NoNameHeader => sender_name = << <<>>, <<>> >>

\* C12 witness: a display name of three tokens in front of the address has
\* been split
C12_Witness ==
    /\ from_header = JaneHeader
    /\ sender_name # <<>>
    /\ Len(sender_name[2]) = 9

====
